---- MODULE Spec2Model ----
(***************************************************************************)
(* Quantum Password Evaluator: the strength estimation, the pattern        *)
(* detector, the variant suggester and the Grover search demonstration of  *)
(* advanced.py, mostadvanced.py, mostadvanced_tool.py and main.py.         *)
(*                                                                         *)
(* Strings are sequences of one-character strings.  Python integers are    *)
(* arbitrary precision: guess counts are little-endian sequences of limbs  *)
(* in base 10000, so that every product of limbs fits the checker's        *)
(* integers.                                                               *)
(***************************************************************************)
EXTENDS Integers, Sequences, FiniteSets, Bags, TLC

VARIABLES
    impl,          \* which source file's variant of the functions runs
    rockyouFile,   \* rockyou.txt: whether it exists, and the set of its lines
    keyboardFile,  \* keyboard_patterns.txt: whether it exists, and its lines
    leakedCache,   \* mostadvanced_tool.py's _leaked_passwords_cache: None, or a set
    est,           \* the call of estimate_password_strength
    sug,           \* the call of suggest_improved_variants
    gro,           \* the call of grover_search_simulation
    ev,            \* the evaluations made so far, for the idempotence check
    ent,           \* the call of detect_charset_size and password_entropy
    ana,           \* the call of analyze_patterns
    front,         \* a front end's pass over one password (api.py, the command lines)
    conc,          \* threads inside is_common_leaked_password (mostadvanced_tool.py)
    io             \* a sequence of dictionary lookups and the file opens they made

vars == <<impl, rockyouFile, keyboardFile, leakedCache, est, sug, gro, ev,
          ent, ana, front, conc, io>>

(***************************************************************************)
(* Bounds of the model.                                                    *)
(***************************************************************************)
MaxPwLen == 2
MaxCount == 2
ManyCount == 3
NumSymbols == 1
NumDigits == 1
MaxN == 8
MaxEvals == 2

(***************************************************************************)
(* Characters: the classes str.islower, str.isupper, str.isdigit see, and  *)
(* str.lower / str.upper.                                                  *)
(***************************************************************************)
LowerSeq == <<"a","b","c","d","e","f","g","h","i","j","k","l","m",
              "n","o","p","q","r","s","t","u","v","w","x","y","z">>
UpperSeq == <<"A","B","C","D","E","F","G","H","I","J","K","L","M",
              "N","O","P","Q","R","S","T","U","V","W","X","Y","Z">>
DigitSeq == <<"0","1","2","3","4","5","6","7","8","9">>
\* string.punctuation ("BACKTICK" stands for the grave accent)
Punctuation == <<"!","\"","#","$","%","&","'","(",")","*","+",",","-",".","/",":",
                 ";","<","=",">","?","@","[","\\","]","^","_","BACKTICK","{","|","}","~">>
\* the literal symbol string of advanced.py and main.py's detect_charset_size
SymbolLiteral == <<"!","@","#","$","%","^","&","*","(",")","-","_","+","=","~","BACKTICK",
                   "[","]","{","}","|",":",";","\"","'","<",">",",",".","?","/">>
\* the literal symbol string of suggest_improved_variants
SuggestSymbols == <<"!","@","#","$","%","^","&","*","(",")","_","-","+","=","<",">","?","/">>

Range(s) == {s[i] : i \in 1..Len(s)}

IndexIn(c, s) == CHOOSE i \in 1..Len(s) : s[i] = c

\* "ß" is a lowercase letter whose uppercase form is the two characters "SS"
IsLower(c) == c \in Range(LowerSeq) \cup {"ß"}
IsUpper(c) == c \in Range(UpperSeq)
IsDigit(c) == c \in Range(DigitSeq)
IsSpace(c) == c \in {" ", "\n"}

\* c.lower(): one character for every character of the model
LowerChar(c) == IF c \in Range(UpperSeq) THEN LowerSeq[IndexIn(c, UpperSeq)] ELSE c

\* c.upper(): a string, since the full case mapping may lengthen
UpperChar(c) ==
    IF c \in Range(LowerSeq) THEN <<UpperSeq[IndexIn(c, LowerSeq)]>>
    ELSE IF c = "ß" THEN <<"S", "S">>
    ELSE <<c>>

Lower(s) == [i \in 1..Len(s) |-> LowerChar(s[i])]

RECURSIVE LStrip(_)
LStrip(s) == IF s # <<>> /\ IsSpace(s[1]) THEN LStrip(Tail(s)) ELSE s

RECURSIVE RStrip(_)
RStrip(s) ==
    IF s # <<>> /\ IsSpace(s[Len(s)]) THEN RStrip(SubSeq(s, 1, Len(s) - 1)) ELSE s

Strip(s) == RStrip(LStrip(s))

Reverse(s) == [i \in 1..Len(s) |-> s[Len(s) + 1 - i]]

\* sub in s
Contains(sub, s) ==
    \E i \in 0..(Len(s) - Len(sub)) : SubSeq(s, i + 1, i + Len(sub)) = sub

(***************************************************************************)
(* Python's int: exact arithmetic on limbs.                                *)
(***************************************************************************)
Base == 100 * 100

Limb(a, i) == IF i <= Len(a) THEN a[i] ELSE 0

\* without the leading zero limbs
BigNorm(a) ==
    LET top == CHOOSE i \in 0..Len(a) :
                   /\ (i = 0 \/ a[i] # 0)
                   /\ \A j \in (i + 1)..Len(a) : a[j] = 0
    IN  SubSeq(a, 1, top)

\* 0 <= n < 2**31
BigFromInt(n) == BigNorm(<<n % Base, (n \div Base) % Base, n \div (Base * Base)>>)

\* the sum of the limbs s[i] in 0..2*Base-2, carries resolved: the carry into
\* limb i is 1 iff a limb below overflows and every limb between is Base - 1
BigCarry(s) ==
    LET n == Len(s)
        CarryIn(i) ==
            IF \E j \in 1..(i - 1) :
                   /\ s[j] >= Base
                   /\ \A k \in (j + 1)..(i - 1) : s[k] = Base - 1
            THEN 1 ELSE 0
    IN  BigNorm([i \in 1..(n + 1) |-> (Limb(s, i) + CarryIn(i)) % Base])

BigAdd(a, b) ==
    IF a = <<>> THEN b
    ELSE IF b = <<>> THEN a
    ELSE LET n == IF Len(a) > Len(b) THEN Len(a) ELSE Len(b)
         IN  BigCarry([i \in 1..n |-> Limb(a, i) + Limb(b, i)])

\* a * k for 0 <= k < Base
BigMulSmall(a, k) ==
    IF a = <<>> THEN <<>>
    ELSE LET n == Len(a)
         IN  BigCarry([i \in 1..(n + 1) |->
                          (IF i <= n THEN (a[i] * k) % Base ELSE 0)
                        + (IF i > 1 THEN (a[i - 1] * k) \div Base ELSE 0)])

\* a - b for a >= b: the borrow into limb i is 1 iff a limb below is negative
\* and every limb between is 0
BigSub(a, b) ==
    IF a = b THEN <<>>
    ELSE LET n == Len(a)
             d == [i \in 1..n |-> a[i] - Limb(b, i)]
             BorrowIn(i) ==
                 IF \E j \in 1..(i - 1) :
                        /\ d[j] < 0
                        /\ \A k \in (j + 1)..(i - 1) : d[k] = 0
                 THEN 1 ELSE 0
         IN  BigNorm([i \in 1..n |-> (d[i] - BorrowIn(i) + Base) % Base])

\* a < b, both normalised
BigLess(a, b) ==
    IF Len(a) # Len(b) THEN Len(a) < Len(b)
    ELSE \E i \in 1..Len(a) :
             /\ a[i] < b[i]
             /\ \A k \in (i + 1)..Len(a) : a[k] = b[k]

BigLeq(a, b) == ~BigLess(b, a)

\* a * Base ** k
BigShift(a, k) == IF a = <<>> THEN <<>> ELSE [i \in 1..k |-> 0] \o a

\* the sum over j in lo..hi of a * b[j] * Base ** (j - 1)
RECURSIVE BigMulRange(_, _, _, _)
BigMulRange(a, b, lo, hi) ==
    IF lo = hi THEN BigShift(BigMulSmall(a, b[lo]), lo - 1)
    ELSE BigAdd(BigMulRange(a, b, lo, (lo + hi) \div 2),
                BigMulRange(a, b, (lo + hi) \div 2 + 1, hi))

BigMul(a, b) == IF a = <<>> \/ b = <<>> THEN <<>> ELSE BigMulRange(a, b, 1, Len(b))

\* c ** n for 0 <= c < Base, by squaring
RECURSIVE BigPow(_, _)
BigPow(c, n) ==
    IF n = 0 THEN <<1>>
    ELSE LET h == BigPow(c, n \div 2)
         IN  IF h = <<>> THEN <<>>
             ELSE IF n % 2 = 0 THEN BigMul(h, h)
             ELSE BigMulSmall(BigMul(h, h), c)

\* (r2 * Base + d) * d, where r2 is twice the root so far
Trial(r2, d) == BigMulSmall(BigNorm(<<d>> \o r2), d)

\* the largest d in lo..hi with Trial(r2, d) <= rem

RECURSIVE SqrtDigit(_, _, _, _)
SqrtDigit(r2, rem, lo, hi) ==
    CASE lo = hi -> lo
      [] lo < hi /\ BigLeq(Trial(r2, (lo + hi + 1) \div 2), rem) ->
             SqrtDigit(r2, rem, (lo + hi + 1) \div 2, hi)
      [] OTHER -> SqrtDigit(r2, rem, lo, (lo + hi + 1) \div 2 - 1)

\* the limb pairs of a: one limb of the root for each
NumPairs(a) == (Len(a) + 1) \div 2

\* the next limb pair of a taken: st.r is the root of the pairs taken so far
\* and st.rem what they leave
SqrtStep(a, st) ==
    LET g    == NumPairs(a) - Len(st.r)
        rem2 == BigNorm(<<Limb(a, 2 * g - 1), Limb(a, 2 * g)>> \o st.rem)
        r2   == BigMulSmall(st.r, 2)
        d    == SqrtDigit(r2, rem2, 0, Base - 1)
    IN  [r |-> <<d>> \o st.r, rem |-> BigSub(rem2, Trial(r2, d))]

\* limb pairs taken, most significant first, until the root has n limbs
RECURSIVE ISqrtUpTo(_, _, _)
ISqrtUpTo(a, st, n) ==
    IF Len(st.r) = n THEN st
    ELSE IF Len(st.r) + 1 = n THEN SqrtStep(a, st)
    ELSE ISqrtUpTo(a, ISqrtUpTo(a, st, (Len(st.r) + n) \div 2), n)

\* math.isqrt: the square root taken limb pair by limb pair
ISqrt(a) == BigNorm(ISqrtUpTo(a, [r |-> <<>>, rem |-> <<>>], NumPairs(a)).r)

\* int -> float conversion of the true division raises OverflowError from
\* 2**1024 - 2**970 on (the first integer that rounds to 2**1024)
FloatLimit == BigSub(BigPow(2, 1024), BigPow(2, 970))
IntTooLargeForFloat(n) == BigLeq(FloatLimit, n)

(***************************************************************************)
(* Charset model.                                                          *)
(***************************************************************************)
Impls == {"advanced", "mostadvanced", "tool", "main"}

ClassSymbols(im) ==
    IF im \in {"advanced", "main"} THEN Range(SymbolLiteral) ELSE Range(Punctuation)

SymbolWeight(im) ==
    IF im \in {"advanced", "main"} THEN 32 ELSE Len(Punctuation)

CharsetSum(im, password) ==
    LET chars == Range(password)
    IN  (IF \E c \in chars : IsLower(c) THEN 26 ELSE 0)
      + (IF \E c \in chars : IsUpper(c) THEN 26 ELSE 0)
      + (IF \E c \in chars : IsDigit(c) THEN 10 ELSE 0)
      + (IF \E c \in chars : c \in ClassSymbols(im) THEN SymbolWeight(im) ELSE 0)

\* a slip: mostadvanced_tool.py returning size, as the other files do
CharsetSizeWithoutDefault(im, password) == CharsetSum(im, password)

\* "return size" everywhere but in mostadvanced_tool.py: "return size or 1"
DetectCharsetSize(im, password) ==
    LET size == CharsetSum(im, password)
    IN  IF im = "tool" /\ size = 0 THEN 1 ELSE size

(***************************************************************************)
(* Leaked-password lookup.                                                 *)
(***************************************************************************)
NormLine(s) == Lower(Strip(s))

\* the value of _leaked_passwords_cache after a lookup (mostadvanced_tool.py)
LeakedCacheAfter ==
    IF impl = "tool" /\ leakedCache.isNone /\ rockyouFile.exists
    THEN [isNone |-> FALSE, words |-> {NormLine(line) : line \in rockyouFile.lines}]
    ELSE leakedCache

\* a slip: the call that fills the cache answers False
LeakedAfterColdMiss(password) ==
    IF impl = "tool"
    THEN IF leakedCache.isNone THEN FALSE
         ELSE NormLine(password) \in leakedCache.words
    ELSE IF ~rockyouFile.exists THEN FALSE
         ELSE \E line \in rockyouFile.lines : NormLine(password) = NormLine(line)

\* is_common_leaked_password(password), in the current state
IsCommonLeakedPassword(password) ==
    IF impl = "tool"
    THEN IF LeakedCacheAfter.isNone THEN FALSE
         ELSE NormLine(password) \in LeakedCacheAfter.words
    ELSE IF ~rockyouFile.exists THEN FALSE
         ELSE \E line \in rockyouFile.lines : NormLine(password) = NormLine(line)

(***************************************************************************)
(* password_entropy, in hundredths of a bit.  log2 is taken in binary      *)
(* fixed point with 24 fraction bits, which gives the rounded value of the *)
(* float computation for every password shorter than 200 characters.       *)
(***************************************************************************)
Pow2(n) == 2 ^ n

RECURSIVE FloorLog2(_)
FloorLog2(c) == IF c < 2 THEN 0 ELSE 1 + FloorLog2(c \div 2)

\* x * x / 2^24 for x below 2^25, in two halves of 12 bits
FixedSquare(x) ==
    LET a == x \div 4096
        b == x % 4096
    IN  a * a + ((2 * a * b + ((b * b) \div 4096)) \div 4096)

\* the next fraction bit of log2 of the mantissa st.x: squaring doubles the
\* logarithm, and the bit is set when the square reaches 2
Log2Step(st) ==
    LET y == FixedSquare(st.x)
    IN  IF y >= Pow2(25) THEN [x |-> y \div 2, bits |-> 2 * st.bits + 1, n |-> st.n + 1]
        ELSE [x |-> y, bits |-> 2 * st.bits, n |-> st.n + 1]

\* fraction bits taken until there are n of them
RECURSIVE Log2UpTo(_, _)
Log2UpTo(st, n) ==
    IF st.n = n THEN st
    ELSE IF st.n + 1 = n THEN Log2Step(st)
    ELSE Log2UpTo(Log2UpTo(st, (st.n + n) \div 2), n)

\* the 24 fraction bits of log2 of the mantissa x
Log2Fraction(x) == Log2UpTo([x |-> x, bits |-> 0, n |-> 0], 24).bits

\* round(n * math.log2(c), 2) * 100
RoundedBits(n, c) ==
    LET whole == FloorLog2(c)
        frac  == Log2Fraction((c * Pow2(24)) \div Pow2(whole))
        high  == frac \div 4096
        low   == frac % 4096
    IN  n * whole * 100 + ((n * 100 * high + ((n * 100 * low) \div 4096) + 2048) \div 4096)

\* the guard on a zero charset is missing in mostadvanced_tool.py, where
\* detect_charset_size never returns zero
PasswordEntropy(im, password) ==
    LET charset == DetectCharsetSize(im, password)
    IN  IF charset = 0 THEN 0 ELSE RoundedBits(Len(password), charset)

(***************************************************************************)
(* estimate_password_strength.                                             *)
(***************************************************************************)
TierNames(im) ==
    IF im = "main"
    THEN [leaked |-> "Very Weak (Leaked Password)", weak |-> "Weak (Crackable in seconds)",
          moderate |-> "Medium (Breakable with effort)", strong |-> "Quantum-Safe"]
    ELSE [leaked |-> "Very Weak (Leaked)", weak |-> "Weak",
          moderate |-> "Moderate", strong |-> "Strong"]

\* the if / elif chain on the leaked flag and quantum_guesses
StrengthOf(im, leaked, quantum) ==
    IF leaked THEN TierNames(im).leaked
    ELSE IF BigLess(quantum, BigFromInt(1000000)) THEN TierNames(im).weak
    ELSE IF BigLess(quantum, BigFromInt(1000000000)) THEN TierNames(im).moderate
    ELSE TierNames(im).strong

\* crack_time_estimate is called by mostadvanced.py and mostadvanced_tool.py only
HasCrackTime(im) == im \in {"mostadvanced", "tool"}

ClassicalGuesses(im, password) ==
    LET size == DetectCharsetSize(im, password)
    IN  BigPow(IF size = 0 THEN 1 ELSE size, Len(password))

\* a slip: int(math.sqrt(n)), which sees only the leading 16 digits of n
QuantumGuessesViaFloat(classical) ==
    ISqrt([i \in 1..Len(classical) |->
              IF i + 4 > Len(classical) THEN classical[i] ELSE 0])

QuantumGuesses(classical) == ISqrt(classical)

EstNew(p) ==
    [pc |-> "called", password |-> p, outcome |-> "none", strength |-> "none",
     classical |-> <<>>, quantum |-> <<>>, times |-> "none"]

\* what the call computes: the guess counts, then the crack times (where they
\* exist and fit a float), then the leaked lookup and the tier
EstimateOf(password) ==
    LET classical == ClassicalGuesses(impl, password)
        quantum   == QuantumGuesses(classical)
    IN  IF HasCrackTime(impl)
           /\ (IntTooLargeForFloat(classical) \/ IntTooLargeForFloat(quantum))
        THEN [outcome |-> "OverflowError", strength |-> "none",
              classical |-> classical, quantum |-> quantum, times |-> "none"]
        ELSE [outcome |-> "returned",
              strength |-> StrengthOf(impl, IsCommonLeakedPassword(password), quantum),
              classical |-> classical, quantum |-> quantum,
              times |-> IF HasCrackTime(impl) THEN "computed" ELSE "none"]

EstimatePasswordStrength ==
    /\ est.pc = "called"
    /\ LET r == EstimateOf(est.password)
       IN  /\ est' = [est EXCEPT !.pc = "done", !.outcome = r.outcome,
                                 !.strength = r.strength, !.classical = r.classical,
                                 !.quantum = r.quantum, !.times = r.times]
           /\ leakedCache' = IF r.outcome = "returned" THEN LeakedCacheAfter ELSE leakedCache
    /\ UNCHANGED <<impl, rockyouFile, keyboardFile, sug, gro, ev, ent, ana, front, conc, io>>

(***************************************************************************)
(* Inputs of the strength estimation.                                      *)
(***************************************************************************)
SeqsUpTo(S, n) == UNION {[1..k -> S] : k \in 0..n}

\* the first n characters of pattern repeated
Repeat(pattern, n) == [i \in 1..n |-> pattern[((i - 1) % Len(pattern)) + 1]]

\* a character of each class, one of no class (the space) and one whose
\* uppercase form is two characters
PwChars == {"a", "S", "5", "!", " ", "ß"}

\* 12 and 18 digits: quantum_guesses is 10**6 and 10**9; four classes and 20
\* characters: 94**20; four classes and 157 characters: 94**157, the first
\* power of 94 beyond the largest float
LongPasswords ==
    {Repeat(<<"5">>, n) : n \in {11, 12, 17, 18}}
        \cup {Repeat(<<"a", "S", "5", "!">>, n) : n \in {20, 157}}

StrengthPasswords == SeqsUpTo(PwChars, MaxPwLen) \cup LongPasswords

LeakLines == {<<"a">>, <<"S", "5", " ">>, <<"A", "d", "m", "i", "n">>, Repeat(<<"5">>, 18)}

MissingFile == [exists |-> FALSE, lines |-> {}]

RockyouFiles == {MissingFile, [exists |-> TRUE, lines |-> {}],
                 [exists |-> TRUE, lines |-> LeakLines]}

NoCache == [isNone |-> TRUE, words |-> {}]

Idle == [pc |-> "idle"]

InitStrength ==
    /\ impl \in Impls
    /\ io = Idle
    /\ rockyouFile \in RockyouFiles
    /\ keyboardFile = MissingFile
    /\ leakedCache = NoCache
    /\ est \in {EstNew(p) : p \in StrengthPasswords}
    /\ sug = Idle
    /\ gro = Idle
    /\ ev = <<>>
    /\ ent = Idle
    /\ ana = Idle
    /\ front = Idle
    /\ conc = Idle

NextStrength == EstimatePasswordStrength

SpecStrength == InitStrength /\ [][NextStrength]_vars

(***************************************************************************)
(* Claims on the strength estimation.                                      *)
(***************************************************************************)
InLeakedDictionary(password) ==
    /\ rockyouFile.exists
    /\ \E line \in rockyouFile.lines : NormLine(line) = NormLine(password)

\* C1 (as claimed): every call returns the tier of the ordered decision table:
\* leaked first, then quantum_guesses < 10**6, then < 10**9, else strong.
C1_DecisionTable ==
    est.pc = "done" =>
        /\ est.outcome = "returned"
        /\ est.strength =
              IF InLeakedDictionary(est.password) THEN TierNames(impl).leaked
              ELSE IF BigLess(est.quantum, <<0, 100>>) THEN TierNames(impl).weak
              ELSE IF BigLess(est.quantum, <<0, 0, 10>>) THEN TierNames(impl).moderate
              ELSE TierNames(impl).strong

\* C1, what the code does: the table is followed by every call that returns.
C1_TableWhenReturned ==
    (est.pc = "done" /\ est.outcome = "returned") =>
        est.strength =
              IF InLeakedDictionary(est.password) THEN TierNames(impl).leaked
              ELSE IF BigLess(est.quantum, <<0, 100>>) THEN TierNames(impl).weak
              ELSE IF BigLess(est.quantum, <<0, 0, 10>>) THEN TierNames(impl).moderate
              ELSE TierNames(impl).strong

\* c ** n as the product of c ** (n \div 2) and c ** (n - n \div 2)
RECURSIVE PowBySplitting(_, _)
PowBySplitting(c, n) ==
    IF n = 0 THEN <<1>>
    ELSE IF n = 1 THEN BigFromInt(c)
    ELSE BigMul(PowBySplitting(c, n \div 2), PowBySplitting(c, n - n \div 2))

\* C2: classical_guesses is max(alphabetSize, 1) ** length exactly, and
\* quantum_guesses is its floor square root: q*q <= classical < (q+1)*(q+1).
C2_ExactGuesses ==
    est.pc = "done" =>
        LET size == CharsetSum(impl, est.password)
            q    == est.quantum
            q1   == BigAdd(q, <<1>>)
        IN  /\ est.classical = PowBySplitting(IF size < 1 THEN 1 ELSE size, Len(est.password))
            /\ BigLeq(BigMul(q, q), est.classical)
            /\ BigLess(est.classical, BigMul(q1, q1))

\* C2 witness: alphabet size 94, length 20, a guess count beyond 64 bits
C2_Witness ==
    /\ est.pc = "done"
    /\ CharsetSum(impl, est.password) = 94
    /\ Len(est.password) = 20
    /\ BigLess(BigPow(2, 64), est.classical)

(***************************************************************************)
(* grover_search_simulation: the circuit on an unnormalised integer state  *)
(* vector.  Basis state k has qubit i equal to bit i of k; the label of k  *)
(* in the counts is the bits-wide binary numeral of k (classical bit 0,    *)
(* which holds qubit 0, is the rightmost character).                       *)
(***************************************************************************)
Bit(k, i) == (k \div Pow2(i)) % 2

\* math.ceil(math.log2(n)) for n >= 1, by halving
RECURSIVE CeilLog2(_)
CeilLog2(n) == IF n <= 1 THEN 0 ELSE 1 + CeilLog2((n + 1) \div 2)

\* a slip: an absent password reported at position 0
ListIndexOrZero(x, list) ==
    IF \E i \in 1..Len(list) : list[i] = x
    THEN (CHOOSE i \in 1..Len(list) : list[i] = x /\ \A j \in 1..(i - 1) : list[j] # x) - 1
    ELSE 0

\* password_list.index(password), -1 when absent
ListIndex(x, list) ==
    IF \E i \in 1..Len(list) : list[i] = x
    THEN (CHOOSE i \in 1..Len(list) : list[i] = x /\ \A j \in 1..(i - 1) : list[j] # x) - 1
    ELSE -1

RECURSIVE BinDigits(_)
BinDigits(n) ==
    IF n < 2 THEN <<DigitSeq[n + 1]>> ELSE BinDigits(n \div 2) \o <<DigitSeq[(n % 2) + 1]>>

\* format(n, f'0{width}b')
Format(n, width) ==
    LET d == BinDigits(n)
    IN  IF Len(d) >= width THEN d ELSE [i \in 1..(width - Len(d)) |-> "0"] \o d

\* int((math.pi / 4) * math.sqrt(2 ** bits)), with pi as 355/113
Iterations(bits) ==
    CHOOSE k \in 0..Pow2(bits) :
        /\ 16 * 113 * 113 * k * k <= 355 * 355 * Pow2(bits)
        /\ 16 * 113 * 113 * (k + 1) * (k + 1) > 355 * 355 * Pow2(bits)

HGate(q) == [g |-> "h", q |-> q, ctl |-> {}]
XGate(q) == [g |-> "x", q |-> q, ctl |-> {}]
McxGate(ctl, q) == [g |-> "mcx", q |-> q, ctl |-> ctl]

\* for i, bit in enumerate(binary): if bit == '0': oracle.x(i)
XOnZeros(binary) ==
    LET RECURSIVE From(_)
        From(i) ==
            IF i > Len(binary) THEN <<>>
            ELSE (IF binary[i] = "0" THEN <<XGate(i - 1)>> ELSE <<>>) \o From(i + 1)
    IN  From(1)

PhaseFlip(bits) ==
    <<HGate(bits - 1), McxGate(0..(bits - 2), bits - 1), HGate(bits - 1)>>

OracleGates(bits, index) ==
    XOnZeros(Format(index, bits)) \o PhaseFlip(bits) \o XOnZeros(Format(index, bits))

DiffuserGates(bits) ==
    [i \in 1..bits |-> HGate(i - 1)] \o [i \in 1..bits |-> XGate(i - 1)]
        \o PhaseFlip(bits)
        \o [i \in 1..bits |-> XGate(i - 1)] \o [i \in 1..bits |-> HGate(i - 1)]

\* the circuit library rejects a qubit index outside the register and a
\* multi-controlled gate with no control qubit (CircuitError)
ValidGates(gates, bits) ==
    \A i \in 1..Len(gates) :
        /\ gates[i].q \in 0..(bits - 1)
        /\ gates[i].ctl \subseteq 0..(bits - 1)
        /\ gates[i].g = "mcx" => gates[i].ctl # {}

ApplyGate(amp, gate) ==
    LET q == gate.q
        w == Pow2(q)
    IN  CASE gate.g = "h" ->
                 [k \in DOMAIN amp |->
                     IF Bit(k, q) = 0 THEN amp[k] + amp[k + w] ELSE amp[k - w] - amp[k]]
          [] gate.g = "x" ->
                 [k \in DOMAIN amp |-> IF Bit(k, q) = 0 THEN amp[k + w] ELSE amp[k - w]]
          [] gate.g = "mcx" ->
                 [k \in DOMAIN amp |->
                     IF \A c \in gate.ctl : Bit(k, c) = 1
                     THEN (IF Bit(k, q) = 0 THEN amp[k + w] ELSE amp[k - w])
                     ELSE amp[k]]

\* the gates st.done + 1 .. n applied in order to st.amp
RECURSIVE ApplyUpTo(_, _, _)
ApplyUpTo(st, gates, n) ==
    IF st.done = n THEN st
    ELSE IF st.done + 1 = n THEN [amp |-> ApplyGate(st.amp, gates[n]), done |-> n]
    ELSE ApplyUpTo(ApplyUpTo(st, gates, (st.done + n) \div 2), gates, n)

ApplyGates(amp, gates) == ApplyUpTo([amp |-> amp, done |-> 0], gates, Len(gates)).amp

\* the common factors of two (the normalisation by sqrt(2) per Hadamard) removed
RECURSIVE ReduceAmp(_)
ReduceAmp(amp) ==
    IF (\A k \in DOMAIN amp : amp[k] % 2 = 0) /\ (\E k \in DOMAIN amp : amp[k] # 0)
    THEN ReduceAmp([k \in DOMAIN amp |-> amp[k] \div 2])
    ELSE amp

GroNew(universe, target) ==
    [pc |-> "called", universe |-> universe, target |-> target, outcome |-> "none",
     bits |-> -1, index |-> -1, iterations |-> -1, round |-> 0,
     amp |-> <<>>, steps |-> <<>>, counts |-> <<>>]

\* lines up to the loop: bits, index, the early return, the three circuits
GroverBuild ==
    /\ gro.pc = "called"
    /\ LET n == Len(gro.universe)
       IN  IF n = 0
           THEN gro' = [gro EXCEPT !.pc = "done", !.outcome = "ValueError"]
           ELSE LET bits  == CeilLog2(n)
                    index == ListIndex(gro.target, gro.universe)
                    zero  == [k \in 0..(Pow2(bits) - 1) |-> IF k = 0 THEN 1 ELSE 0]
                IN  IF index = -1
                    THEN gro' = [gro EXCEPT !.pc = "done", !.outcome = "TargetNotFound",
                                            !.bits = bits, !.index = index]
                    ELSE IF ~ValidGates(OracleGates(bits, index), bits)
                            \/ ~ValidGates(DiffuserGates(bits), bits)
                    THEN gro' = [gro EXCEPT !.pc = "done", !.outcome = "CircuitError",
                                            !.bits = bits, !.index = index]
                    ELSE gro' = [gro EXCEPT !.pc = "rounds", !.bits = bits, !.index = index,
                                            !.iterations = Iterations(bits),
                                            !.amp = ReduceAmp(ApplyGates(zero,
                                                        [i \in 1..bits |-> HGate(i - 1)])),
                                            !.steps = <<"h">>]
    /\ UNCHANGED <<impl, rockyouFile, keyboardFile, leakedCache, est, sug, ev, ent, ana, front, conc, io>>

\* one pass of the loop: the oracle, then the diffuser
GroverRound ==
    /\ gro.pc = "rounds"
    /\ gro.round < gro.iterations
    /\ gro' = [gro EXCEPT !.round = @ + 1,
                          !.steps = @ \o <<"oracle", "diffuser">>,
                          !.amp = ReduceAmp(ApplyGates(
                                      ApplyGates(@, OracleGates(gro.bits, gro.index)),
                                      DiffuserGates(gro.bits)))]
    /\ UNCHANGED <<impl, rockyouFile, keyboardFile, leakedCache, est, sug, ev, ent, ana, front, conc, io>>

\* measure and execute: the weight of each label is its squared amplitude
GroverMeasure ==
    /\ gro.pc = "rounds"
    /\ gro.round = gro.iterations
    /\ gro' = [gro EXCEPT !.pc = "done", !.outcome = "Measured",
                          !.steps = @ \o <<"measure">>,
                          !.counts = [label \in {Format(k, gro.bits) : k \in DOMAIN gro.amp} |->
                                         LET k == CHOOSE j \in DOMAIN gro.amp :
                                                      Format(j, gro.bits) = label
                                         IN  gro.amp[k] * gro.amp[k]]]
    /\ UNCHANGED <<impl, rockyouFile, keyboardFile, leakedCache, est, sug, ev, ent, ana, front, conc, io>>

\* candidate passwords: the six of the documented example first
Pool ==
    <<<<"a", "p", "p", "l", "e", "1", "2", "3">>,
      <<"o", "m", "k", "a", "r", "@", "2", "0", "0", "1">>,
      <<"h", "e", "l", "l", "o", "W", "o", "r", "l", "d">>,
      <<"a", "d", "m", "i", "n">>,
      <<"i", "l", "o", "v", "e", "y", "o", "u">>,
      <<"T", "a", "r", "g", "e", "t", "!", "9">>,
      <<"1", "2", "3", "4", "5", "6">>,
      <<"p", "a", "s", "s", "w", "o", "r", "d">>,
      <<"q", "w", "e", "r", "t", "y">>,
      <<"l", "e", "t", "m", "e", "i", "n">>>>

ExampleUniverse == SubSeq(Pool, 1, 6)

\* the list the command line of mostadvanced_tool.py builds for the password "admin"
RepeatedUniverse == <<Pool[4], Pool[7], Pool[2], Pool[4]>>

GroverUniverses == {SubSeq(Pool, 1, n) : n \in 0..MaxN} \cup {ExampleUniverse, RepeatedUniverse}

GroverTargets == {Pool[i] : i \in 1..(MaxN + 1)}

GroverImpls == {"advanced", "mostadvanced", "tool"}

InitGrover ==
    /\ impl \in GroverImpls
    /\ io = Idle
    /\ rockyouFile = MissingFile
    /\ keyboardFile = MissingFile
    /\ leakedCache = NoCache
    /\ est = Idle
    /\ sug = Idle
    /\ gro \in {GroNew(u, t) : u \in GroverUniverses, t \in GroverTargets}
    /\ ev = <<>>
    /\ ent = Idle
    /\ ana = Idle
    /\ front = Idle
    /\ conc = Idle

NextGrover == GroverBuild \/ GroverRound \/ GroverMeasure

SpecGrover == InitGrover /\ [][NextGrover]_vars

Distinct(list) == \A i, j \in 1..Len(list) : i # j => list[i] # list[j]

\* the position of x in a list that holds it, counted from zero
PositionOf(x, list) == (CHOOSE i \in 1..Len(list) : list[i] = x /\ \A j \in 1..(i - 1) : list[j] # x) - 1

\* the least b with 2^b >= n
LeastBits(n) == CHOOSE b \in 0..n : Pow2(b) >= n /\ \A c \in 0..(b - 1) : Pow2(c) < n

StrictPlurality(counts, label) ==
    /\ label \in DOMAIN counts
    /\ \A other \in DOMAIN counts \ {label} : counts[label] > counts[other]

GroverFinished(n) ==
    /\ gro.pc = "done"
    /\ Len(gro.universe) >= n
    /\ gro.target \in Range(gro.universe)

\* C3 (as claimed): for a universe of at least 4 distinct strings holding the
\* target, the search measures, and the label that is the bits-wide binary
\* numeral of the target's index has strictly the largest probability.
C3_IndexLabelPlurality ==
    (GroverFinished(4) /\ Distinct(gro.universe)) =>
        /\ gro.outcome = "Measured"
        /\ StrictPlurality(gro.counts,
               Format(PositionOf(gro.target, gro.universe), LeastBits(Len(gro.universe))))

\* C3, what the code does: the strict plurality is on the numeral of the index
\* read backwards (the oracle marks qubit i with character i of the numeral,
\* and the counts print qubit 0 last).
C3_ReversedLabelPlurality ==
    (GroverFinished(4) /\ Distinct(gro.universe)) =>
        /\ gro.outcome = "Measured"
        /\ StrictPlurality(gro.counts,
               Reverse(Format(PositionOf(gro.target, gro.universe), LeastBits(Len(gro.universe)))))

\* C3: the documented example (index 5, a numeral that reads the same both ways)
C3_ExampleLabel ==
    (gro.pc = "done" /\ gro.universe = ExampleUniverse /\ gro.target = Pool[6]) =>
        StrictPlurality(gro.counts, <<"1", "0", "1">>)

\* C4 (as claimed): for a universe of at least 2 elements holding the target,
\* bits is the least b with 2^b >= N, index is the target's zero-based
\* position, and iterations is floor((pi/4) * sqrt(2^bits)), pi taken between
\* 333/106 and 22/7.
C4_BitsIndexIterations ==
    GroverFinished(2) =>
        /\ gro.bits = LeastBits(Len(gro.universe))
        /\ gro.index = PositionOf(gro.target, gro.universe)
        /\ gro.iterations >= 0
        /\ 28 * 28 * gro.iterations * gro.iterations <= 22 * 22 * Pow2(gro.bits)
        /\ 424 * 424 * (gro.iterations + 1) * (gro.iterations + 1) > 333 * 333 * Pow2(gro.bits)

\* C4, what the code does: the same once the oracle and the diffuser were built,
\* which needs at least 3 elements; the example gives bits 3, index 5, 2 rounds.
C4_WhenCircuitBuilt ==
    /\ GroverFinished(3) => C4_BitsIndexIterations /\ gro.outcome = "Measured"
    /\ (gro.pc = "done" /\ gro.universe = ExampleUniverse /\ gro.target = Pool[6]) =>
           gro.bits = 3 /\ gro.index = 5 /\ gro.iterations = 2

NoCircuitRun == gro.steps = <<>> /\ gro.counts = <<>> /\ gro.round = 0

C6_InvalidUniverse ==
    (gro.pc = "done" /\ Len(gro.universe) < 2) =>
        gro.outcome = "InvalidUniverse" /\ NoCircuitRun

\* C6, what the code does: the empty universe raises the math domain error, one
\* element without the target is reported as target-not-found, one element that
\* is the target fails while the oracle is built.
C6_SmallUniverseOutcomes ==
    (gro.pc = "done" /\ Len(gro.universe) < 2) =>
        /\ gro.outcome = (IF Len(gro.universe) = 0 THEN "ValueError"
                          ELSE IF gro.target \in Range(gro.universe) THEN "CircuitError"
                          ELSE "TargetNotFound")
        /\ NoCircuitRun

(***************************************************************************)
(* analyze_patterns.  A finding is recorded by its kind (the message texts *)
(* differ between the files) and the word or personal item it names.       *)
(***************************************************************************)
Finding(kind, arg) == [kind |-> kind, arg |-> arg]

\* any(pattern in password.lower() or pattern[::-1] in password.lower());
\* only main.py skips the blank lines of the file
IsKeyboardPattern(password) ==
    /\ keyboardFile.exists
    /\ \E line \in keyboardFile.lines :
           LET pattern == Lower(Strip(line))
           IN  /\ impl = "main" => pattern # <<>>
               /\ \/ Contains(pattern, Lower(password))
                  \/ Contains(Reverse(pattern), Lower(password))

CommonWords(im) ==
    <<<<"p", "a", "s", "s", "w", "o", "r", "d">>,
      <<"a", "d", "m", "i", "n">>,
      <<"o", "m", "k", "a", "r">>,
      <<"q", "w", "e", "r", "t", "y">>,
      <<"1", "2", "3", "4", "5", "6">>>>
      \o (IF im = "main" THEN <<<<"i", "l", "o", "v", "e", "y", "o", "u">>>> ELSE <<>>)

\* re.search(r'(.)\1{2,}', password): the dot does not match a newline
HasRepeatedCharacters(s) ==
    \E i \in 1..(Len(s) - 2) : s[i] = s[i + 1] /\ s[i] = s[i + 2] /\ s[i] # "\n"

AllIn(s, class) == s # <<>> /\ \A i \in 1..Len(s) : s[i] \in class

\* re.fullmatch(r'X+', s) in mostadvanced.py; re.match(r'^X+$', s) elsewhere,
\* where $ also matches before a final newline
MatchesOnly(im, s, class) ==
    \/ AllIn(s, class)
    \/ /\ im # "mostadvanced"
       /\ Len(s) >= 2
       /\ s[Len(s)] = "\n"
       /\ AllIn(SubSeq(s, 1, Len(s) - 1), class)

BoundarySymbols == {"!", "@", "#", "$", "%", "^", "&", "*"}

RECURSIVE WordFindings(_, _, _)
WordFindings(kind, words, password) ==
    IF words = <<>> THEN <<>>
    ELSE (IF Contains(Lower(Head(words)), Lower(password))
          THEN <<Finding(kind, Head(words))>> ELSE <<>>)
         \o WordFindings(kind, Tail(words), password)

\* main.py skips the empty personal items
InfoItems(im, info) == IF im = "main" THEN SelectSeq(info, LAMBDA x : x # <<>>) ELSE info

AnalyzePatterns(password, info) ==
    (IF IsCommonLeakedPassword(password) THEN <<Finding("Leaked", <<>>)>> ELSE <<>>)
    \o (IF IsKeyboardPattern(password) THEN <<Finding("Keyboard", <<>>)>> ELSE <<>>)
    \o WordFindings("CommonWord", CommonWords(impl), password)
    \o (IF HasRepeatedCharacters(password) THEN <<Finding("Repeated", <<>>)>> ELSE <<>>)
    \o (IF MatchesOnly(impl, password, Range(DigitSeq))
        THEN <<Finding("DigitsOnly", <<>>)>> ELSE <<>>)
    \o (IF MatchesOnly(impl, password, Range(LowerSeq))
        THEN <<Finding("LowercaseOnly", <<>>)>> ELSE <<>>)
    \o (IF impl = "main" /\ password # <<>>
           /\ (password[1] \in BoundarySymbols \/ password[Len(password)] \in BoundarySymbols)
        THEN <<Finding("BoundarySymbol", <<>>)>> ELSE <<>>)
    \o WordFindings("PersonalInfo", InfoItems(impl, info), password)

Kinds(findings) == {findings[i].kind : i \in 1..Len(findings)}

(***************************************************************************)
(* suggest_improved_variants.  advanced.py, mostadvanced.py and main.py    *)
(* carry the same text (a substitution is taken with probability 0.5);     *)
(* mostadvanced_tool.py always substitutes and draws from all punctuation. *)
(***************************************************************************)
SubstKeys == {"a", "s", "i", "o", "e", "l", "t"}

Substitute(c) ==
    CASE c = "a" -> "@" [] c = "s" -> "$" [] c = "i" -> "1" [] c = "o" -> "0"
      [] c = "e" -> "3" [] c = "l" -> "1" [] c = "t" -> "7"

\* what one character of the password can become, over the random draws
CharOptions(im, c) ==
    IF LowerChar(c) \in SubstKeys
    THEN IF im = "tool" THEN {<<Substitute(LowerChar(c))>>}
         ELSE {<<Substitute(LowerChar(c))>>, UpperChar(c), <<c>>}
    ELSE {UpperChar(c), <<c>>}

RECURSIVE Transforms(_, _)
Transforms(im, password) ==
    IF password = <<>> THEN {<<>>}
    ELSE {x \o rest : x \in CharOptions(im, Head(password)),
                      rest \in Transforms(im, Tail(password))}

\* list.insert(pos, x)
InsertAt(list, pos, x) ==
    LET at == IF pos > Len(list) THEN Len(list) ELSE pos
    IN  SubSeq(list, 1, at) \o <<x>> \o SubSeq(list, at + 1, Len(list))

\* a slip: the symbol is not inserted
VariantWithoutSymbol(t, symPos, sym, digPos, dig) == InsertAt(t, digPos, dig)

\* the symbol inserted, then the digit
VariantOf(t, symPos, sym, digPos, dig) == InsertAt(InsertAt(t, symPos, sym), digPos, dig)

SuggestSymbolsOf(im) == IF im = "tool" THEN Punctuation ELSE SuggestSymbols

SymbolChoices(im) == {SuggestSymbolsOf(im)[i] : i \in 1..NumSymbols}

DigitChoices == {DigitSeq[i] : i \in 1..NumDigits}

\* every string one pass of the loop can add
VariantsOf(im, password) ==
    {VariantOf(t, symPos, sym, digPos, dig) :
        t \in Transforms(im, password), sym \in SymbolChoices(im), dig \in DigitChoices,
        symPos \in 0..(Len(password) + 2), digPos \in 0..(Len(password) + 3)}

\* while len(variants) < count
LoopContinues(variants, count) == Cardinality(variants) < count

SugNew(password, count) ==
    [pc |-> "loop", password |-> password, count |-> count, variants |-> {},
     result |-> EmptyBag]

\* one pass of the loop; a string already in the set leaves it as it was
SuggestIteration ==
    /\ sug.pc = "loop"
    /\ LoopContinues(sug.variants, sug.count)
    /\ \E t \in Transforms(impl, sug.password) :
       \E sym \in SymbolChoices(impl), dig \in DigitChoices :
       \E symPos \in 0..Len(t), digPos \in 0..(Len(t) + 1) :
           sug' = [sug EXCEPT !.variants = @ \cup {VariantOf(t, symPos, sym, digPos, dig)}]
    /\ UNCHANGED <<impl, rockyouFile, keyboardFile, leakedCache, est, gro, ev, ent, ana, front, conc, io>>

\* return list(variants): the list up to its order
SuggestReturn ==
    /\ sug.pc = "loop"
    /\ ~LoopContinues(sug.variants, sug.count)
    /\ sug' = [sug EXCEPT !.pc = "returned", !.result = SetToBag(sug.variants)]
    /\ UNCHANGED <<impl, rockyouFile, keyboardFile, leakedCache, est, gro, ev, ent, ana, front, conc, io>>

\* no character, a substitutable letter, a digit, a letter whose
\* uppercase form is two characters
SugPasswords == {<<>>, <<"a">>, <<"5">>, <<"ß">>}

\* every password with a small count, and the empty password, whose variants
\* are the fewest, with counts beyond them
SugInputs ==
    {SugNew(p, c) : p \in SugPasswords, c \in 0..MaxCount}
        \cup {SugNew(<<>>, c) : c \in 0..ManyCount}

\* the text of mostadvanced.py stands for its copies in advanced.py and main.py
SuggestImpls == {"mostadvanced", "tool"}

InitSuggest ==
    /\ impl \in SuggestImpls
    /\ io = Idle
    /\ rockyouFile = MissingFile
    /\ keyboardFile = MissingFile
    /\ leakedCache = NoCache
    /\ est = Idle
    /\ sug \in SugInputs
    /\ gro = Idle
    /\ ev = <<>>
    /\ ent = Idle
    /\ ana = Idle
    /\ front = Idle
    /\ conc = Idle

NextSuggest == SuggestIteration \/ SuggestReturn

SpecSuggest == InitSuggest /\ [][NextSuggest]_vars

\* the random draws are fair: a pass that can change the set is eventually taken
SpecSuggestFair == SpecSuggest /\ WF_vars(SuggestIteration) /\ WF_vars(SuggestReturn)

\* C7 (as claimed): the call returns exactly count strings, pairwise distinct,
\* each of length len(p) + 2.
C7_CountDistinctLengthPlusTwo ==
    sug.pc = "returned" =>
        /\ BagCardinality(sug.result) = sug.count
        /\ \A v \in BagToSet(sug.result) :
               CopiesIn(v, sug.result) = 1 /\ Len(v) = Len(sug.password) + 2

\* C7, what the code does: the count and the distinctness hold whenever the
\* call returns; the length is len(p) + 2 when every character of p has a
\* one-character uppercase form, and up to one more per character that has not.
C7_LengthFollowsUppercase ==
    sug.pc = "returned" =>
        /\ BagCardinality(sug.result) = sug.count
        /\ \A v \in BagToSet(sug.result) :
               /\ CopiesIn(v, sug.result) = 1
               /\ Len(v) >= Len(sug.password) + 2
               /\ Len(v) <= Len(sug.password) + 2
                      + Cardinality({i \in 1..Len(sug.password) :
                                        Len(UpperChar(sug.password[i])) > 1})

\* C8 (as claimed): under fair random choices the call eventually returns.
C8_EventuallyReturns == <>(sug.pc = "returned")

\* C8, what the code does: the loop can stand with every reachable variant
\* collected and fewer than count of them, where no pass changes the set.
C8_NeverStuck ==
    ~(/\ sug.pc = "loop"
      /\ LoopContinues(sug.variants, sug.count)
      /\ VariantsOf(impl, sug.password) \subseteq sug.variants)

\* C9: no string returned for a non-empty password is reported as digits only
\* or as lowercase only by analyze_patterns.
C9_NeitherDigitsNorLowercaseOnly ==
    (sug.pc = "returned" /\ sug.password # <<>>) =>
        \A v \in BagToSet(sug.result) :
            Kinds(AnalyzePatterns(v, <<>>)) \cap {"DigitsOnly", "LowercaseOnly"} = {}

\* C9 witness: variants of a digit and of a lowercase letter were returned, one
\* of them keeping the character as it was
C9_Witness ==
    /\ sug.pc = "returned"
    /\ sug.password \in {<<"5">>, <<"a">>}
    /\ \E v \in BagToSet(sug.result) : Contains(sug.password, v)

(***************************************************************************)
(* The evaluation of a password: password_entropy, estimate_password_      *)
(* strength and analyze_patterns, as the command lines and api.py's        *)
(* evaluate call them; ev logs what each evaluation yielded.               *)
(***************************************************************************)
\* an OverflowError of the estimate ends the evaluation before the findings
EvaluationOf(password, info) ==
    LET r == EstimateOf(password)
    IN  [password |-> password, info |-> info, cacheFilled |-> ~leakedCache.isNone,
         outcome |-> r.outcome, strength |-> r.strength,
         classical |-> r.classical, quantum |-> r.quantum,
         entropy |-> IF r.outcome = "returned" THEN PasswordEntropy(impl, password) ELSE -1,
         findings |-> IF r.outcome = "returned" THEN AnalyzePatterns(password, info)
                      ELSE <<>>]

\* a password that is a dictionary line up to case and blanks, a run of one
\* digit, digits before a newline, a common word ("Admin" is a dictionary
\* line), a keyboard run, and the empty password
EvalPasswords ==
    {<<>>, <<" ", "A">>, <<"5", "5", "5">>, <<"5", "\n">>,
     <<"a", "d", "m", "i", "n">>, <<"q", "w", "e">>}

InfoLists == {<<>>, <<<<"A">>, <<>>>>}

KeyboardFiles == {MissingFile, [exists |-> TRUE, lines |-> {<<"Q", "w", "e", "\n">>, <<"\n">>}]}

Evaluate ==
    /\ Len(ev) < MaxEvals
    /\ \E password \in EvalPasswords, info \in InfoLists :
           /\ ev' = Append(ev, EvaluationOf(password, info))
           /\ leakedCache' = IF EstimateOf(password).outcome = "returned"
                             THEN LeakedCacheAfter ELSE leakedCache
    /\ UNCHANGED <<impl, rockyouFile, keyboardFile, est, sug, gro, ent, ana, front, conc, io>>

\* a lone call of is_common_leaked_password, from any other caller
LeakedLookup ==
    /\ leakedCache' = LeakedCacheAfter
    /\ UNCHANGED <<impl, rockyouFile, keyboardFile, est, sug, gro, ev, ent, ana, front, conc, io>>

InitEval ==
    /\ impl \in Impls
    /\ io = Idle
    /\ rockyouFile \in RockyouFiles
    /\ keyboardFile \in KeyboardFiles
    /\ leakedCache = NoCache
    /\ est = Idle
    /\ sug = Idle
    /\ gro = Idle
    /\ ev = <<>>
    /\ ent = Idle
    /\ ana = Idle
    /\ front = Idle
    /\ conc = Idle

NextEval == Evaluate \/ LeakedLookup

SpecEval == InitEval /\ [][NextEval]_vars

SameYield(a, b) ==
    /\ a.entropy = b.entropy
    /\ a.findings = b.findings
    /\ a.classical = b.classical
    /\ a.quantum = b.quantum
    /\ a.strength = b.strength
    /\ a.outcome = b.outcome

\* C10: two evaluations of one password and personal-info list, anywhere in a
\* call sequence with the files unchanged, yield the same entropy, findings,
\* guess counts and tier.
C10_Idempotent ==
    \A i, j \in 1..Len(ev) :
        (ev[i].password = ev[j].password /\ ev[i].info = ev[j].info) => SameYield(ev[i], ev[j])

\* C10 witness: a leaked password evaluated before and after the cache was filled
C10_Witness ==
    \E i, j \in 1..Len(ev) :
        /\ i < j
        /\ ev[i].password = ev[j].password /\ ev[i].info = ev[j].info
        /\ ~ev[i].cacheFilled /\ ev[j].cacheFilled
        /\ "Leaked" \in Kinds(ev[j].findings)
        /\ ev[j].strength = TierNames(impl).leaked

(***************************************************************************)
(* The call of password_entropy, which calls detect_charset_size.          *)
(***************************************************************************)
\* math.log2 raises ValueError (math domain error) at 0; only
\* mostadvanced_tool.py calls it without a test of the charset
EntropyRaises(im, password) == im = "tool" /\ DetectCharsetSize(im, password) = 0

EntNew(p) == [pc |-> "called", password |-> p, charset |-> -1, outcome |-> "none", entropy |-> -1]

PasswordEntropyCall ==
    /\ ent.pc = "called"
    /\ ent' = [ent EXCEPT !.pc = "done",
                          !.charset = DetectCharsetSize(impl, ent.password),
                          !.outcome = IF EntropyRaises(impl, ent.password)
                                      THEN "ValueError" ELSE "returned",
                          !.entropy = IF EntropyRaises(impl, ent.password) THEN -1
                                      ELSE PasswordEntropy(impl, ent.password)]
    /\ UNCHANGED <<impl, rockyouFile, keyboardFile, leakedCache, est, sug, gro, ev,
                   ana, front, conc, io>>

InitEntropy ==
    /\ impl \in Impls
    /\ io = Idle
    /\ rockyouFile = MissingFile
    /\ keyboardFile = MissingFile
    /\ leakedCache = NoCache
    /\ est = Idle
    /\ sug = Idle
    /\ gro = Idle
    /\ ev = <<>>
    /\ ent \in {EntNew(p) : p \in SeqsUpTo(PwChars, MaxPwLen)}
    /\ ana = Idle
    /\ front = Idle
    /\ conc = Idle

NextEntropy == PasswordEntropyCall

SpecEntropy == InitEntropy /\ [][NextEntropy]_vars

\* C11: password_entropy returns a value >= 0 for every password, and 0 for
\* the empty password and for every password with no character of the four
\* classes; it never ends in the domain error of the logarithm.
C11_EntropyNonNegative ==
    ent.pc = "done" =>
        /\ ent.outcome = "returned"
        /\ ent.entropy >= 0
        /\ (ent.password = <<>> \/ CharsetSum(impl, ent.password) = 0) => ent.entropy = 0

\* C11 witness: a blank password in mostadvanced_tool.py, where password_entropy
\* has no test of the charset and log2 is taken of 1
C11_Witness ==
    /\ ent.pc = "done"
    /\ impl = "tool"
    /\ ent.password = <<" ">>
    /\ ent.charset = 1
    /\ ent.outcome = "returned"
    /\ ent.entropy = 0

\* C12 (as claimed): detect_charset_size returns 26*hasLower + 26*hasUpper +
\* 10*hasDigit + |symbolSet|*hasSymbol, |symbolSet| being the number of
\* characters tested, and 0 for the empty password.
C12_SumOfClassSizes ==
    ent.pc = "done" =>
        LET chars == Range(ent.password)
        IN  ent.charset =
                (IF \E c \in chars : IsLower(c) THEN 26 ELSE 0)
              + (IF \E c \in chars : IsUpper(c) THEN 26 ELSE 0)
              + (IF \E c \in chars : IsDigit(c) THEN 10 ELSE 0)
              + (IF \E c \in chars : c \in ClassSymbols(impl)
                 THEN Cardinality(ClassSymbols(impl)) ELSE 0)

\* C12, what the code returns: the symbol class counts 32 in advanced.py and
\* main.py, and mostadvanced_tool.py returns 1 in place of 0
C12_SumWithLiteralWeight ==
    ent.pc = "done" =>
        ent.charset = IF impl = "tool" /\ CharsetSum(impl, ent.password) = 0 THEN 1
                      ELSE CharsetSum(impl, ent.password)

(***************************************************************************)
(* The front ends: evaluate of api.py (the functions of mostadvanced.py)   *)
(* and the command lines of the four files.  A pass is a sequence of       *)
(* steps in the order of the statements; the suggester and the search      *)
(* themselves are modelled above, here only whether and with what          *)
(* arguments they are called.                                              *)
(***************************************************************************)
\* ml_password_score exists in mostadvanced.py and mostadvanced_tool.py
HasClassifier(im) == im \in {"mostadvanced", "tool"}

\* model.pkl: loadable, absent, or making joblib.load / predict_proba raise
ModelStates == {"present", "missing", "failing"}

FrontSteps(im, via) ==
    IF via = "api" THEN <<"analyse", "score", "suggest">>
    ELSE CASE im = "mostadvanced" -> <<"analyse", "score", "suggest", "search">>
           [] im = "tool"         -> <<"analyse", "suggest", "score", "search">>
           [] im = "advanced"     -> <<"analyse", "suggest", "search">>
           [] im = "main"         -> <<"analyse", "suggest">>

\* the test in front of suggest_improved_variants: strength != "Strong" in
\* api.py and mostadvanced.py, "Weak" in rating in advanced.py and main.py
\* (the leaked and the weak tier hold that word), none in mostadvanced_tool.py
CallsSuggester(im, strength) ==
    CASE im = "tool" -> TRUE
      [] im \in {"advanced", "main"} ->
             strength \in {TierNames(im).leaked, TierNames(im).weak}
      [] OTHER -> strength # TierNames(im).strong

\* the list handed to grover_search_simulation
SampleDataset(im, password) ==
    IF im = "tool" THEN <<Pool[4], Pool[7], Pool[2], password>>
    ELSE SubSeq(Pool, 1, 5) \o <<password>>

FrontNew(via, password, model, simulate) ==
    [pc |-> "running", via |-> via, password |-> password, model |-> model,
     simulate |-> simulate, step |-> 1, outcome |-> "none", strength |-> "none",
     classical |-> <<>>, quantum |-> <<>>, entropy |-> -1, findings |-> <<>>,
     score |-> "none", suggested |-> FALSE, searched |-> FALSE,
     universe |-> <<>>, index |-> -1]

FrontAt(kind) ==
    /\ front.pc = "running"
    /\ FrontSteps(impl, front.via)[front.step] = kind

\* the pass moved past its current step; after the last one it returns
Advanced(f) ==
    IF f.step = Len(FrontSteps(impl, f.via))
    THEN [f EXCEPT !.pc = "done", !.outcome = "returned"]
    ELSE [f EXCEPT !.step = @ + 1]

Raised(f, error) == [f EXCEPT !.pc = "done", !.outcome = error]

\* password_entropy, estimate_password_strength, analyze_patterns
FrontAnalyse ==
    /\ FrontAt("analyse")
    /\ LET r == EstimateOf(front.password)
       IN  IF r.outcome # "returned"
           THEN /\ front' = Raised(front, r.outcome)
                /\ leakedCache' = leakedCache
           ELSE /\ front' = Advanced([front EXCEPT
                                !.strength = r.strength,
                                !.classical = r.classical,
                                !.quantum = r.quantum,
                                !.entropy = PasswordEntropy(impl, front.password),
                                !.findings = AnalyzePatterns(front.password, <<>>)])
                /\ leakedCache' = LeakedCacheAfter
    /\ UNCHANGED <<impl, rockyouFile, keyboardFile, est, sug, gro, ev, ent, ana, conc, io>>

\* ml_password_score: mostadvanced_tool.py answers 0.0 to every exception,
\* mostadvanced.py lets it through to the caller
FrontScore ==
    /\ FrontAt("score")
    /\ front' = IF front.model = "present"
                THEN Advanced([front EXCEPT !.score = "classifier"])
                ELSE IF impl = "tool"
                THEN Advanced([front EXCEPT !.score = "zero"])
                ELSE Raised(front, IF front.model = "missing"
                                   THEN "FileNotFoundError" ELSE "ClassifierError")
    /\ UNCHANGED <<impl, rockyouFile, keyboardFile, leakedCache, est, sug, gro, ev,
                   ent, ana, conc, io>>

FrontSuggest ==
    /\ FrontAt("suggest")
    /\ front' = Advanced([front EXCEPT !.suggested = CallsSuggester(impl, front.strength)])
    /\ UNCHANGED <<impl, rockyouFile, keyboardFile, leakedCache, est, sug, gro, ev,
                   ent, ana, conc, io>>

\* mostadvanced_tool.py searches only under --simulate
FrontSearch ==
    /\ FrontAt("search")
    /\ front' = IF impl = "tool" /\ ~front.simulate
                THEN Advanced(front)
                ELSE LET list == SampleDataset(impl, front.password)
                     IN  Advanced([front EXCEPT !.searched = TRUE,
                                                !.universe = list,
                                                !.index = ListIndex(front.password, list)])
    /\ UNCHANGED <<impl, rockyouFile, keyboardFile, leakedCache, est, sug, gro, ev,
                   ent, ana, conc, io>>

\* a weak password, "admin" (a common word, a dictionary line and an entry of
\* the sample lists), 12 digits (Moderate), 18 digits (Strong, and a
\* dictionary line) and a password of four classes
FrontPasswords == {<<"a">>, Pool[4], Repeat(<<"5">>, 12), Repeat(<<"5">>, 18), Pool[6]}

FrontVias(im) == IF im = "mostadvanced" THEN {"api", "cli"} ELSE {"cli"}

InitFront ==
    /\ impl \in Impls
    /\ io = Idle
    /\ rockyouFile \in {MissingFile, [exists |-> TRUE, lines |-> LeakLines]}
    /\ keyboardFile = MissingFile
    /\ leakedCache = NoCache
    /\ est = Idle
    /\ sug = Idle
    /\ gro = Idle
    /\ ev = <<>>
    /\ ent = Idle
    /\ ana = Idle
    /\ front \in {FrontNew(via, p, model, simulate) :
                     via \in FrontVias(impl), p \in FrontPasswords,
                     model \in ModelStates, simulate \in BOOLEAN}
    /\ conc = Idle

NextFront == FrontAnalyse \/ FrontScore \/ FrontSuggest \/ FrontSearch

SpecFront == InitFront /\ [][NextFront]_vars

\* C13 (as claimed): with the classifier absent or failing the score is 0.0
\* and the evaluation returns with its other fields; it is never aborted.
C13_ScoreDefaultsToZero ==
    (front.pc = "done" /\ HasClassifier(impl) /\ front.model # "present") =>
        /\ front.outcome = "returned"
        /\ front.score = "zero"
        /\ front.strength # "none"
        /\ front.entropy >= 0

\* C13, what the code does: only mostadvanced_tool.py catches the failure.
C13_ToolScoreDefaultsToZero ==
    (front.pc = "done" /\ impl = "tool" /\ front.model # "present") =>
        /\ front.outcome = "returned"
        /\ front.score = "zero"
        /\ front.strength # "none"

\* C15 (as claimed): in a pass that returns, the suggester is called if and
\* only if the tier is below Strong.
C15_SuggestionsIffBelowStrong ==
    (front.pc = "done" /\ front.outcome = "returned") =>
        (front.suggested <=> front.strength # TierNames(impl).strong)

\* C15, what the code does: the test of each front end.
C15_SuggestionsByFrontEnd ==
    (front.pc = "done" /\ front.outcome = "returned") =>
        (front.suggested <=> CallsSuggester(impl, front.strength))

\* C16 (as claimed): the list a command line hands to the search holds
\* pairwise distinct strings, the password among them, and the index searched
\* is the last position, where the password was placed.
C16_DistinctAndLastPosition ==
    front.searched =>
        /\ Distinct(front.universe)
        /\ \E i \in 1..Len(front.universe) : front.universe[i] = front.password
        /\ front.index = Len(front.universe) - 1

\* C16, what the code does: the password is a member and the index searched is
\* that of its first occurrence.
C16_MemberAtFirstOccurrence ==
    front.searched =>
        /\ front.universe[Len(front.universe)] = front.password
        /\ front.index = PositionOf(front.password, front.universe)

(***************************************************************************)
(* Missing dictionary files (SpecStrength: rockyou.txt absent or present;  *)
(* keyboard_patterns.txt absent).                                          *)
(***************************************************************************)
\* C14 (as claimed): with a dictionary file missing the lookup answers no
\* match, estimate_password_strength completes with the tier evaluated, no
\* exception leaves the evaluation and the tier is never the leaked one.
C14_MissingFileCompletes ==
    (est.pc = "done" /\ ~rockyouFile.exists) =>
        /\ ~IsCommonLeakedPassword(est.password)
        /\ ~IsKeyboardPattern(est.password)
        /\ est.outcome = "returned"
        /\ est.strength \in {TierNames(impl).weak, TierNames(impl).moderate,
                             TierNames(impl).strong}

\* C14, what the code does: the missing file is no match and raises nothing
\* itself; the call returns the tier of the guess count unless the crack-time
\* conversion overflows.
C14_MissingFileIsNoMatch ==
    (est.pc = "done" /\ ~rockyouFile.exists) =>
        /\ ~IsCommonLeakedPassword(est.password)
        /\ ~IsKeyboardPattern(est.password)
        /\ est.outcome \in {"returned", "OverflowError"}
        /\ est.strength # TierNames(impl).leaked
        /\ est.outcome = "returned" => est.strength = StrengthOf(impl, FALSE, est.quantum)

(***************************************************************************)
(* run_grover_simulation of main.py: the number of qubits and the target   *)
(* index are typed in by the user.  The circuit is the superposition, the  *)
(* oracle and the diffuser appended once each, and the measurement; the    *)
(* loop and the measurement are those of GroverRound and GroverMeasure.    *)
(***************************************************************************)
MaxBits == 4

\* the labels of the basis states whose sign the oracle changes and of those
\* it neither keeps nor negates, on the uniform superposition
OracleEffect(bits, index) ==
    LET uniform == [k \in 0..(Pow2(bits) - 1) |-> 1]
        after   == ReduceAmp(ApplyGates(uniform, OracleGates(bits, index)))
    IN  [flipped |-> {Format(k, bits) : k \in {j \in DOMAIN after : after[j] = -1}},
         other   |-> {Format(k, bits) : k \in {j \in DOMAIN after : after[j] \notin {1, -1}}}]

RunNew(bits, target) ==
    [pc |-> "called", universe |-> <<>>, target |-> <<>>, outcome |-> "none",
     bits |-> bits, index |-> target, iterations |-> -1, round |-> 0,
     amp |-> <<>>, steps |-> <<>>, counts |-> <<>>, flipped |-> {}, other |-> {}]

\* lines 174-196: the register, the Hadamards, the oracle and the diffuser;
\* they are appended once, which the loop of GroverRound runs as one round
RunGroverBuild ==
    /\ gro.pc = "called"
    /\ impl = "main"
    /\ LET zero == [k \in 0..(Pow2(gro.bits) - 1) |-> IF k = 0 THEN 1 ELSE 0]
       IN  IF ~ValidGates(OracleGates(gro.bits, gro.index), gro.bits)
              \/ ~ValidGates(DiffuserGates(gro.bits), gro.bits)
           THEN gro' = [gro EXCEPT !.pc = "done", !.outcome = "CircuitError"]
           ELSE gro' = [gro EXCEPT !.pc = "rounds",
                                   !.iterations = 1,
                                   !.amp = ReduceAmp(ApplyGates(zero,
                                               [i \in 1..gro.bits |-> HGate(i - 1)])),
                                   !.steps = <<"h">>,
                                   !.flipped = OracleEffect(gro.bits, gro.index).flipped,
                                   !.other = OracleEffect(gro.bits, gro.index).other]
    /\ UNCHANGED <<impl, rockyouFile, keyboardFile, leakedCache, est, sug, ev, ent, ana, front, conc, io>>

\* int(input(...)) twice: any number of qubits, and a target that may lie one
\* past the range the prompt names
InitRunGrover ==
    /\ impl = "main"
    /\ io = Idle
    /\ rockyouFile = MissingFile
    /\ keyboardFile = MissingFile
    /\ leakedCache = NoCache
    /\ est = Idle
    /\ sug = Idle
    /\ gro \in {RunNew(bits, target) : bits \in 0..MaxBits, target \in 0..Pow2(MaxBits)}
    /\ gro.index <= Pow2(gro.bits)
    /\ ev = <<>>
    /\ ent = Idle
    /\ ana = Idle
    /\ front = Idle
    /\ conc = Idle

NextRunGrover == RunGroverBuild \/ GroverRound \/ GroverMeasure

SpecRunGrover == InitRunGrover /\ [][NextRunGrover]_vars

RunInRange == gro.bits >= 1 /\ gro.index \in 0..(Pow2(gro.bits) - 1)

\* C17 (as claimed): for every bits >= 1 and every index below 2^bits the
\* oracle is built and changes the sign of exactly one basis state, the one
\* whose label in the counts is the bits-wide binary numeral of the index.
C17_OracleFlipsIndexLabel ==
    (gro.pc # "called" /\ RunInRange) =>
        /\ gro.outcome # "CircuitError"
        /\ gro.flipped = {Format(gro.index, gro.bits)}
        /\ gro.other = {}

\* C17, what the code does: from two qubits on, exactly one sign is changed,
\* that of the state whose label is the numeral read backwards.
C17_OracleFlipsReversedLabel ==
    (gro.pc # "called" /\ RunInRange /\ gro.bits >= 2) =>
        /\ gro.outcome # "CircuitError"
        /\ gro.flipped = {Reverse(Format(gro.index, gro.bits))}
        /\ gro.other = {}

RECURSIVE RoundSteps(_)
RoundSteps(n) == IF n = 0 THEN <<>> ELSE <<"oracle", "diffuser">> \o RoundSteps(n - 1)

\* C18 (as claimed): a run that measures is the superposition, then exactly
\* floor((pi/4) * sqrt(2^bits)) rounds of oracle and diffuser, then one
\* measurement, whatever the number of qubits.
C18_RoundsFollowBits ==
    (gro.pc = "done" /\ gro.outcome = "Measured") =>
        gro.steps = <<"h">> \o RoundSteps(Iterations(gro.bits)) \o <<"measure">>

\* C18, what run_grover_simulation does: one round, for every number of qubits.
C18_SingleRound ==
    (gro.pc = "done" /\ gro.outcome = "Measured") =>
        gro.steps = <<"h", "oracle", "diffuser", "measure">>

(***************************************************************************)
(* analyze_patterns called on its own.                                     *)
(***************************************************************************)
AnaNew(password, info) ==
    [pc |-> "called", password |-> password, info |-> info, findings |-> <<>>]

AnalyzePatternsCall ==
    /\ ana.pc = "called"
    /\ ana' = [ana EXCEPT !.pc = "done",
                          !.findings = AnalyzePatterns(ana.password, ana.info)]
    /\ leakedCache' = LeakedCacheAfter
    /\ UNCHANGED <<impl, rockyouFile, keyboardFile, est, sug, gro, ev, ent, front, conc, io>>

\* a letter, a digit, a symbol of main.py's boundary test, a symbol outside
\* it, and the newline
AnaChars == {"a", "5", "!", "?", "\n"}

AnaPasswords == SeqsUpTo(AnaChars, MaxPwLen) \cup EvalPasswords

InitAnalyze ==
    /\ impl \in Impls
    /\ io = Idle
    /\ rockyouFile \in {MissingFile, [exists |-> TRUE, lines |-> LeakLines]}
    /\ keyboardFile \in KeyboardFiles
    /\ leakedCache = NoCache
    /\ est = Idle
    /\ sug = Idle
    /\ gro = Idle
    /\ ev = <<>>
    /\ ent = Idle
    /\ ana \in {AnaNew(p, info) : p \in AnaPasswords, info \in InfoLists}
    /\ front = Idle
    /\ conc = Idle

NextAnalyze == AnalyzePatternsCall

SpecAnalyze == InitAnalyze /\ [][NextAnalyze]_vars

\* the eight rules as listed: rule 5 and rule 6 on the whole string, rule 7 on
\* the symbol class of the alphabet detection
RuleOrderFindings(password, info) ==
    (IF IsCommonLeakedPassword(password) THEN <<Finding("Leaked", <<>>)>> ELSE <<>>)
    \o (IF IsKeyboardPattern(password) THEN <<Finding("Keyboard", <<>>)>> ELSE <<>>)
    \o WordFindings("CommonWord", CommonWords(impl), password)
    \o (IF HasRepeatedCharacters(password) THEN <<Finding("Repeated", <<>>)>> ELSE <<>>)
    \o (IF AllIn(password, Range(DigitSeq)) THEN <<Finding("DigitsOnly", <<>>)>> ELSE <<>>)
    \o (IF AllIn(password, Range(LowerSeq)) THEN <<Finding("LowercaseOnly", <<>>)>> ELSE <<>>)
    \o (IF password # <<>>
           /\ (password[1] \in ClassSymbols(impl)
               \/ password[Len(password)] \in ClassSymbols(impl))
        THEN <<Finding("BoundarySymbol", <<>>)>> ELSE <<>>)
    \o WordFindings("PersonalInfo", InfoItems(impl, info), password)

\* C19 (as claimed): analyze_patterns returns exactly the findings of the
\* rules 1 to 8 that hold, concatenated in rule order.
C19_AllRulesInOrder ==
    ana.pc = "done" => ana.findings = RuleOrderFindings(ana.password, ana.info)

\* C19, what the code does outside main.py: the other seven rules in order,
\* rule 7 never (a final newline apart, which rules 5 and 6 overlook).
C19_WithoutBoundaryRule ==
    (ana.pc = "done" /\ impl # "main"
        /\ (ana.password = <<>> \/ ana.password[Len(ana.password)] # "\n")) =>
        ana.findings = SelectSeq(RuleOrderFindings(ana.password, ana.info),
                                 LAMBDA f : f.kind # "BoundarySymbol")

(***************************************************************************)
(* is_common_leaked_password of mostadvanced_tool.py called by several     *)
(* threads.  The function takes no lock; a thread can be suspended         *)
(* between the test of the global, the reading of the file, the            *)
(* assignment of the global and the membership test.                       *)
(***************************************************************************)
NumThreads == 2

Threads == 1..NumThreads

ThreadNew(password) == [pc |-> "test", password |-> password, built |-> {}, result |-> "none"]

\* if _leaked_passwords_cache is None:
ThreadTest(t) ==
    /\ conc.pc = "running"
    /\ conc.th[t].pc = "test"
    /\ conc' = [conc EXCEPT !.th[t].pc = IF leakedCache.isNone THEN "read" ELSE "lookup"]
    /\ UNCHANGED <<impl, rockyouFile, keyboardFile, leakedCache, est, sug, gro, ev,
                   ent, ana, front, io>>

\* with open(...) as f: set(line.strip().lower() for line in f), the set kept
\* on the thread's stack; a missing file ends the call with False
ThreadRead(t) ==
    /\ conc.pc = "running"
    /\ conc.th[t].pc = "read"
    /\ conc' = IF rockyouFile.exists
               THEN [conc EXCEPT !.th[t].pc = "assign",
                                 !.th[t].built = {NormLine(line) : line \in rockyouFile.lines},
                                 !.reads = @ + 1]
               ELSE [conc EXCEPT !.th[t].pc = "done", !.th[t].result = FALSE]
    /\ UNCHANGED <<impl, rockyouFile, keyboardFile, leakedCache, est, sug, gro, ev,
                   ent, ana, front, io>>

\* _leaked_passwords_cache = ...
ThreadAssign(t) ==
    /\ conc.pc = "running"
    /\ conc.th[t].pc = "assign"
    /\ leakedCache' = [isNone |-> FALSE, words |-> conc.th[t].built]
    /\ conc' = [conc EXCEPT !.th[t].pc = "lookup", !.assigns = @ + 1]
    /\ UNCHANGED <<impl, rockyouFile, keyboardFile, est, sug, gro, ev, ent, ana, front, io>>

\* return password.strip().lower() in _leaked_passwords_cache
ThreadLookup(t) ==
    /\ conc.pc = "running"
    /\ conc.th[t].pc = "lookup"
    /\ conc' = [conc EXCEPT !.th[t].pc = "done",
                            !.th[t].result = NormLine(conc.th[t].password) \in leakedCache.words]
    /\ UNCHANGED <<impl, rockyouFile, keyboardFile, leakedCache, est, sug, gro, ev,
                   ent, ana, front, io>>

ThreadPasswords == {<<"a">>, <<"5">>, Pool[4]}

InitConcurrent ==
    /\ impl = "tool"
    /\ io = Idle
    /\ rockyouFile \in {MissingFile, [exists |-> TRUE, lines |-> LeakLines]}
    /\ keyboardFile = MissingFile
    /\ leakedCache = NoCache
    /\ est = Idle
    /\ sug = Idle
    /\ gro = Idle
    /\ ev = <<>>
    /\ ent = Idle
    /\ ana = Idle
    /\ front = Idle
    /\ conc \in {[pc |-> "running", th |-> [t \in Threads |-> ThreadNew(pw[t])],
                  reads |-> 0, assigns |-> 0] : pw \in [Threads -> ThreadPasswords]}

NextConcurrent ==
    \E t \in Threads : ThreadTest(t) \/ ThreadRead(t) \/ ThreadAssign(t) \/ ThreadLookup(t)

SpecConcurrent == InitConcurrent /\ [][NextConcurrent]_vars

FullCache == {NormLine(line) : line \in rockyouFile.lines}

\* C20 (as claimed): however the threads interleave, the file is read by at
\* most one thread, the cache is assigned at most once, and the cache a thread
\* sees is never partly built.
C20_InitializedAtMostOnce ==
    conc.pc = "running" =>
        /\ conc.reads <= 1
        /\ conc.assigns <= 1
        /\ ~leakedCache.isNone => leakedCache.words = FullCache

\* C20, what the code does: every thread that finds the cache empty reads the
\* file and assigns the cache; each assignment is of the whole set, and every
\* answer is the right one.
C20_WholeSetEachTime ==
    conc.pc = "running" =>
        /\ conc.reads <= NumThreads
        /\ conc.assigns <= conc.reads
        /\ ~leakedCache.isNone => leakedCache.words = FullCache
        /\ \A t \in Threads :
               conc.th[t].pc = "done" =>
                   conc.th[t].result = (/\ rockyouFile.exists
                                        /\ NormLine(conc.th[t].password) \in FullCache)

(***************************************************************************)
(* A sequence of dictionary lookups in one process, with the calls of      *)
(* open() they make.  is_common_leaked_password of mostadvanced_tool.py    *)
(* opens rockyou.txt while its cache is None; every other lookup opens its *)
(* file on every call.                                                     *)
(***************************************************************************)
MaxLookups == 3

IoNew ==
    [pc |-> "running", calls |-> 0, rockyouOpens |-> 0, rockyouReads |-> 0,
     keyboardOpens |-> 0, keyboardReads |-> 0, last |-> <<>>]

\* whether this call of is_common_leaked_password reaches open(...)
OpensRockyou == impl = "tool" => leakedCache.isNone

LookupPasswords == {<<"a">>, <<"5">>, <<"q", "w", "e">>}

IsCommonLeakedPasswordCall ==
    /\ io.pc = "running"
    /\ io.calls < MaxLookups
    /\ \E password \in LookupPasswords :
           io' = [io EXCEPT !.calls = @ + 1,
                            !.rockyouOpens = IF OpensRockyou THEN @ + 1 ELSE @,
                            !.rockyouReads = IF OpensRockyou /\ rockyouFile.exists
                                             THEN @ + 1 ELSE @,
                            !.last = <<"leaked", password, IsCommonLeakedPassword(password)>>]
    /\ leakedCache' = LeakedCacheAfter
    /\ UNCHANGED <<impl, rockyouFile, keyboardFile, est, sug, gro, ev, ent, ana, front, conc>>

IsKeyboardPatternCall ==
    /\ io.pc = "running"
    /\ io.calls < MaxLookups
    /\ \E password \in LookupPasswords :
           io' = [io EXCEPT !.calls = @ + 1,
                            !.keyboardOpens = @ + 1,
                            !.keyboardReads = IF keyboardFile.exists THEN @ + 1 ELSE @,
                            !.last = <<"keyboard", password, IsKeyboardPattern(password)>>]
    /\ UNCHANGED <<impl, rockyouFile, keyboardFile, leakedCache, est, sug, gro, ev,
                   ent, ana, front, conc>>

InitLookups ==
    /\ impl \in Impls
    /\ io = IoNew
    /\ rockyouFile \in {MissingFile, [exists |-> TRUE, lines |-> LeakLines]}
    /\ keyboardFile \in KeyboardFiles
    /\ leakedCache = NoCache
    /\ est = Idle
    /\ sug = Idle
    /\ gro = Idle
    /\ ev = <<>>
    /\ ent = Idle
    /\ ana = Idle
    /\ front = Idle
    /\ conc = Idle

NextLookups == IsCommonLeakedPasswordCall \/ IsKeyboardPatternCall

SpecLookups == InitLookups /\ [][NextLookups]_vars

\* C21 (as claimed): over any sequence of lookups each dictionary file is
\* opened at most once, on the first lookup that needs it, also when that
\* lookup found the file missing.
C21_LoadedAtMostOnce ==
    io.pc = "running" =>
        /\ io.rockyouOpens <= 1
        /\ io.rockyouReads <= 1
        /\ io.keyboardOpens <= 1
        /\ io.keyboardReads <= 1

\* C21, what the code does: only the leaked set of mostadvanced_tool.py is
\* kept, and only once the file was found; everything else is one open per call.
C21_OnlyToolKeepsLeakedSet ==
    io.pc = "running" =>
        /\ (impl = "tool" /\ rockyouFile.exists) => io.rockyouReads <= 1
        /\ (impl = "tool" /\ ~leakedCache.isNone) =>
               leakedCache.words = {NormLine(line) : line \in rockyouFile.lines}
        /\ io.rockyouOpens + io.keyboardOpens <= io.calls
        /\ (impl # "tool" \/ ~rockyouFile.exists) =>
               io.rockyouOpens + io.keyboardOpens = io.calls

(***************************************************************************)
(* The crack times of estimate_password_strength (SpecStrength).           *)
(***************************************************************************)
\* C22 (as claimed): for every password, of every length, the call completes
\* and returns a tier with both guess counts and, where the file computes
\* them, both crack times; the conversion of the guess counts never raises.
C22_AlwaysReturnsTierAndTimes ==
    est.pc = "done" =>
        /\ est.outcome = "returned"
        /\ est.strength \in {TierNames(impl).leaked, TierNames(impl).weak,
                             TierNames(impl).moderate, TierNames(impl).strong}
        /\ est.classical = ClassicalGuesses(impl, est.password)
        /\ est.quantum = QuantumGuesses(est.classical)
        /\ HasCrackTime(impl) => est.times = "computed"

\* C22, what the code does: the call returns as long as classical_guesses is
\* below the float limit, and raises OverflowError from there on.
C22_ReturnsBelowFloatLimit ==
    est.pc = "done" =>
        IF HasCrackTime(impl) /\ IntTooLargeForFloat(est.classical)
        THEN est.outcome = "OverflowError" /\ est.strength = "none"
        ELSE C22_AlwaysReturnsTierAndTimes

====
